---- MODULE Spec2Model ----
(***************************************************************************)
(* Model of the 6 Minute English spider                                    *)
(*   spiders/six_minutes_english.py : SixMinuteEnglishSpider               *)
(*   pipelines.py                   : _sanitize, CustomFilesPipeline,      *)
(*                                    ExcelPipeline                        *)
(* as it runs under its custom_settings (ITEM_PIPELINES holds only         *)
(* ExcelPipeline).  Python strings are sequences of one-character strings, *)
(* so that split, strip, re.sub and re.search are computed, not assumed.   *)
(***************************************************************************)
EXTENDS Integers, Sequences, FiniteSets, TLC

\* ------------------------------------------------------------------ bounds
\* listing blocks on the listing page
MaxBlocks == 2
\* invocations of the spider, one after the other, on the same machine
MaxRuns == 2

\* ----------------------------------------------------------------- strings
\* Python's None, where a string may stand (never equal to a string of characters)
None == <<"None">>

\* Python truthiness of an optional string: neither None nor ""
Truthy(s) == s # None /\ s # <<>>

\* x or y
OrElse(x, y) == IF Truthy(x) THEN x ELSE y

IsSpace(c) == c = " "

IsDigit(c) == c \in {"0", "1", "2", "3", "4", "5", "6", "7", "8", "9"}

\* \w of the regular expression, over the characters the model uses
IsWord(c) == IsDigit(c) \/ c \in {"A", "B", "E", "T", "U", "a", "g", "k", "n", "o", "u", "w", "_"}

\* the characters re.sub(r'[\\/*?:"<>|]', ...) removes
IllegalChars == {"\\", "/", "*", "?", ":", "\"", "<", ">", "|"}

RECURSIVE Join(_, _)
\* sep.join(parts)
Join(parts, sep) ==
  IF parts = <<>> THEN <<>>
  ELSE IF Len(parts) = 1 THEN Head(parts)
  ELSE Head(parts) \o sep \o Join(Tail(parts), sep)

RECURSIVE LStrip(_)
LStrip(s) == IF s # <<>> /\ IsSpace(Head(s)) THEN LStrip(Tail(s)) ELSE s

RECURSIVE RStrip(_)
RStrip(s) == IF s # <<>> /\ IsSpace(s[Len(s)]) THEN RStrip(SubSeq(s, 1, Len(s) - 1)) ELSE s

\* str.strip()
Strip(s) == RStrip(LStrip(s))

RECURSIVE SplitOn(_, _, _)
\* str.split(ch): the pieces between the occurrences of ch, empty pieces kept;
\* cur is the piece being read
SplitOn(s, ch, cur) ==
  IF s = <<>> THEN <<cur>>
  ELSE IF Head(s) = ch THEN <<cur>> \o SplitOn(Tail(s), ch, <<>>)
  ELSE SplitOn(Tail(s), ch, Append(cur, Head(s)))

RECURSIVE SplitWs(_, _)
\* str.split(): the maximal runs of non-space characters
SplitWs(s, cur) ==
  IF s = <<>> THEN (IF cur = <<>> THEN <<>> ELSE <<cur>>)
  ELSE IF IsSpace(Head(s))
       THEN (IF cur = <<>> THEN <<>> ELSE <<cur>>) \o SplitWs(Tail(s), <<>>)
       ELSE SplitWs(Tail(s), Append(cur, Head(s)))

\* re.sub(r'[\\/*?:"<>|]', "", s)
RemoveIllegal(s) == SelectSeq(s, LAMBDA c : c \notin IllegalChars)

\* --------------------------------------------------- spider: pure helpers
\* __init__: self.target_years, from the years argument ("2021,2023", or None).
\* A list of strings, or NoList for Python's None.
NoList == <<None>>

ParseYears(years) ==
  IF Truthy(years)
  THEN LET parts    == SplitOn(years, ",", <<>>)
           stripped == [i \in 1..Len(parts) |-> Strip(parts[i])]
       IN  SelectSeq(stripped, LAMBDA y : y # <<>>)
  ELSE NoList

\* truthiness of target_years: neither None nor []
YearsActive(target_years) == target_years # NoList /\ target_years # <<>>

\* the members of the list target_years
YearSet(target_years) ==
  IF target_years = NoList THEN {} ELSE {target_years[i] : i \in 1..Len(target_years)}

\* _extract_date_and_year: r"(\d{1,2}\s+\w+\s+(\d{4}))" tried at raw[i].  The set of
\* the places p4 where the four digits of group 2 begin in a match that begins at
\* raw[i]: empty when there is no match, and one place otherwise (the classes \s
\* and \w share no character, so the pattern can split the text in one way only).
DateMatchAt(raw, i) ==
  LET At(j, P(_)) == j >= 1 /\ j <= Len(raw) /\ P(raw[j])
  IN  {p4 \in 1..Len(raw) :
         \E p1 \in {i + 1, i + 2} :                          \* \d{1,2}
           /\ \A k \in i..(p1 - 1) : At(k, IsDigit)
           /\ \E p2 \in (p1 + 1)..Len(raw) :                 \* \s+
                /\ \A k \in p1..(p2 - 1) : At(k, IsSpace)
                /\ \E p3 \in (p2 + 1)..Len(raw) :            \* \w+
                     /\ \A k \in p2..(p3 - 1) : At(k, IsWord)
                     /\ p3 < p4                              \* \s+
                     /\ \A k \in p3..(p4 - 1) : At(k, IsSpace)
                     /\ \A k \in p4..(p4 + 3) : At(k, IsDigit)}  \* (\d{4})

\* re.search over the normalised text raw: the leftmost match, as
\* <<release_date, release_year>>, or <<None, None>> when there is none
SearchDate(raw) ==
  LET matches == UNION {{<<i, p4>> : p4 \in DateMatchAt(raw, i)} : i \in 1..Len(raw)}
      first   == {m \in matches : \A n \in matches : m[1] <= n[1]}
  IN  IF matches = {} THEN <<None, None>>
      ELSE CHOOSE found \in
             {<<Strip(SubSeq(raw, m[1], m[2] + 3)), SubSeq(raw, m[2], m[2] + 3)>> :
                m \in first} : TRUE

\* _extract_date_and_year(raw_text): <<release_date, release_year>>, or <<None, None>>;
\* raw is " ".join((raw_text or "").split())
ExtractDateAndYear(raw_text) ==
  CHOOSE found \in
    {SearchDate(raw) : raw \in {Join(SplitWs(OrElse(raw_text, <<>>), <<>>), <<" ">>)}} : TRUE

\* _sanitize_filename(name) of the spider
SanitizeFilename(name) == Strip(RemoveIllegal(name))

Unknown == <<"U", "n", "k", "n", "o", "w", "n">>

\* _sanitize(name) of pipelines.py
Sanitize(name) ==
  LET r == RemoveIllegal(Strip(OrElse(name, <<>>)))
  IN  IF r = <<>> THEN Unknown ELSE r

\* the site every link of the listing is resolved against
SiteRoot == <<"h", ":">>

IsAbsolute(link) == Len(link) >= 2 /\ SubSeq(link, 1, 2) = SiteRoot

\* response.urljoin(link), for an absolute link or a path from the site's root
UrlJoin(link) == IF IsAbsolute(link) THEN link ELSE SiteRoot \o link

\* PassesYearFilter letting a block with no year through an active filter
PassesYearFilterFailOpen(target_years, release_year) ==
  ~(YearsActive(target_years)
    /\ release_year # None /\ release_year \notin YearSet(target_years))

\* PassesYearFilter with the filter left out of parse
PassesYearFilterOff(target_years, release_year) == TRUE

\* PassesYearFilter asking for a year also when no filter is set
PassesYearFilterStrict(target_years, release_year) ==
  /\ release_year # None
  /\ (YearsActive(target_years) => release_year \in YearSet(target_years))

\* the year filter of parse: the block goes on to line 106
PassesYearFilter(target_years, release_year) ==
  ~(YearsActive(target_years)
    /\ (release_year = None \/ release_year \notin YearSet(target_years)))

\* ------------------------------------------------------------- the inputs
Y23 == <<"2", "0", "2", "3">>

Y24 == <<"2", "0", "2", "4">>

Y25 == <<"2", "0", "2", "5">>

\* the values of the years argument the runs are started with
YearsArgs ==
  { None,                                   \* no -a years=...
    <<" ", ",", " ">>,                      \* only commas and blanks
    Y23 \o <<",", " ">> \o Y25 \o <<",">> } \* "2023, 2025,"

\* One block of the listing page (.widget-bbcle-coursecontentlist .text), as the
\* selectors of parse read it: href is h2 a::attr(href), title is h2 a::text,
\* number is .details h3 b::text (None when the node is missing), details is
\* the list of the text nodes under .details h3.
Block(href, title, number, details) ==
  [href |-> href, title |-> title, number |-> number, details |-> details]

Aug25 == <<" ", "/", " ", " ", "2", "8", " ", "A", "u", "g", " ", "2", "0", "2", "5">>

Aug24 == <<"/", " ", "1", " ", "A", "u", "g", " ", "2", "0", "2", "4">>

Blocks ==
  { Block(<<"/", "a">>, <<"T">>, <<"E", "1">>, << <<"E", "1">>, Aug25 >>),
    \* the same page as /a, linked by its absolute address, under another date
    Block(SiteRoot \o <<"/", "a">>, None, None, << Aug24 >>),
    \* another page with the title and the year of /a
    Block(<<"/", "b">>, <<" ", "T", " ">>, <<"E", "2">>, << <<"E", "2">>, Aug25 >>),
    \* the page /b again, under a title of illegal characters and with no date
    Block(<<"/", "b">>, <<"?">>, <<"E", "3">>, << <<"E", "3">> >>),
    \* malformed: no link
    Block(None, <<"T">>, None, << Aug25 >>) }

RECURSIVE SeqsUpTo(_, _)
\* the sequences over S of length at most n
SeqsUpTo(S, n) ==
  IF n = 0 THEN {<<>>}
  ELSE LET shorter == SeqsUpTo(S, n - 1)
       IN  shorter \cup {Append(q, x) : q \in shorter, x \in S}

\* the listing pages the runs fetch
Pages == SeqsUpTo(Blocks, MaxBlocks)

\* One detail page, as the selectors of parse_podcast read it: pdf and mp3 are the
\* href of the download links, h1 is h1::text, b is .text .details h3 > b::text.
Doc(pdf, mp3, h1, b) == [pdf |-> pdf, mp3 |-> mp3, h1 |-> h1, b |-> b]

PdfExt == <<".", "p", "d", "f">>

Mp3Ext == <<".", "m", "p", "3">>

\* the detail pages of the site, by address
DetailPage(url) ==
  IF url = SiteRoot \o <<"/", "a">>
    THEN Doc(url \o PdfExt, url \o Mp3Ext, <<" ", "T">>, <<"E", "1">>)
  ELSE Doc(url \o PdfExt, None, <<"B">>, None)

\* a page served with a non-2xx status: none of the selectors finds anything
ErrorPage == Doc(None, None, None, None)

\* what a fetch ends as: a 2xx response, a non-2xx response, no response at all
FetchOutcomes == {"ok", "http_error", "transport_error"}

\* the body the site serves at an asset's address: "data", or "empty" (no bytes)
AssetBody(url) == IF url = SiteRoot \o <<"/", "a">> \o Mp3Ext THEN "empty" ELSE "data"

\* what the histories keep of a fetch
Ended(outcome) == IF outcome = "ok" THEN "ok" ELSE "failed"

\* ------------------------------------------------------ spider: callbacks
\* the request parse yields at line 118
DetailRequest(full_url, title, number, release_date, release_year) ==
  [url  |-> full_url,
   meta |-> [title |-> title, number |-> number,
             release_date |-> release_date, release_year |-> release_year]]

\* AlreadySeen with seen never consulted
AlreadySeenNever(seen, full_url) == FALSE

\* AlreadySeen with the test the wrong way round
AlreadySeenInverted(seen, full_url) == full_url \notin seen

\* line 107: full_url in seen
AlreadySeen(seen, full_url) == full_url \in seen

RECURSIVE ParseLoop(_, _, _, _)
\* The loop of parse from blocks[i] on.  acc.seen is the set seen, acc.out the
\* requests yielded so far, acc.passed the indices of the blocks that went past
\* the year filter (reached line 106).
ParseLoop(blocks, i, target_years, acc) ==
  IF i > Len(blocks) THEN acc
  ELSE
    LET block == blocks[i]
        link  == block.href
    IN  IF ~Truthy(link) THEN ParseLoop(blocks, i + 1, target_years, acc)
        ELSE
          LET title        == Strip(OrElse(block.title, <<>>))
              number       == Strip(OrElse(block.number, <<>>))
              details_text == Join(block.details, <<" ">>)
              dy           == ExtractDateAndYear(details_text)
              release_date == dy[1]
              release_year == dy[2]
              full_url     == UrlJoin(link)
          IN  IF ~PassesYearFilter(target_years, release_year)
                THEN ParseLoop(blocks, i + 1, target_years, acc)
              ELSE IF AlreadySeen(acc.seen, full_url)
                THEN ParseLoop(blocks, i + 1, target_years,
                               [acc EXCEPT !.passed = @ \cup {i}])
              ELSE ParseLoop(blocks, i + 1, target_years,
                             [seen   |-> acc.seen \cup {full_url},
                              out    |-> Append(acc.out,
                                          DetailRequest(full_url, title, number,
                                                        release_date, release_year)),
                              passed |-> acc.passed \cup {i}])

\* parse(response) on a listing page with these blocks
Parse(blocks, target_years) ==
  ParseLoop(blocks, 1, target_years, [seen |-> {}, out |-> <<>>, passed |-> {}])

\* Path.home() / "Documents" / self.podcast_brand / self.name.capitalize()
BaseDir == "~/Documents/BBC_English_Podcast/Six_minutes_english"

UnknownYear == <<"U", "n", "k", "n", "o", "w", "n", "_", "Y", "e", "a", "r">>

\* a file's place: base_dir / year segment / file name
FilePath(dir, year, name) == [dir |-> dir, year |-> year, name |-> name]

\* an item's pdf_path or mp3_path that was never set (item.get gives None)
NoPath == FilePath("", None, None)

\* Path.exists(): there is a file at the path, whatever its size
PathExists(files, path) == path \in DOMAIN files

\* NeedsDownload without the look at the disk: every asset is requested
NeedsDownloadAlways(files, path) == TRUE

\* lines 150 and 157: the asset is requested
NeedsDownload(files, path) == ~PathExists(files, path)

\* the request of lines 151 and 158; ep and kind say which asset of which
\* episode it is for (the code carries only the file path)
AssetRequest(url, path, ep, kind) == [url |-> url, filepath |-> path, ep |-> ep, kind |-> kind]

\* line 152 and 159: the path the item records for an asset whose URL is there
RecordedPath(path, requested) == path

\* parse_podcast(response): the requests and the item it yields, and what it found
\* at each asset's path.  meta is response.meta, url is response.url, doc the page,
\* files the files on disk as the callback runs.
ParsePodcast(meta, url, doc, files) ==
  LET pdf_url  == doc.pdf
      mp3_url  == doc.mp3
      title    == IF ~Truthy(meta.title) THEN Strip(OrElse(doc.h1, <<>>)) ELSE meta.title
      number   == IF ~Truthy(meta.number) THEN Strip(OrElse(doc.b, <<>>)) ELSE meta.number
      year_dir == OrElse(meta.release_year, UnknownYear)
      stem     == SanitizeFilename(OrElse(title, Unknown))
      pdf_path == FilePath(BaseDir, year_dir, stem \o PdfExt)
      mp3_path == FilePath(BaseDir, year_dir, stem \o Mp3Ext)
      pdf_req  == Truthy(pdf_url) /\ NeedsDownload(files, pdf_path)
      mp3_req  == Truthy(mp3_url) /\ NeedsDownload(files, mp3_path)
      item     == [number       |-> number,
                   title        |-> title,
                   url          |-> url,
                   release_date |-> meta.release_date,
                   release_year |-> meta.release_year,
                   pdf_url      |-> pdf_url,
                   mp3_url      |-> mp3_url,
                   pdf_path     |-> IF Truthy(pdf_url) THEN RecordedPath(pdf_path, pdf_req)
                                    ELSE NoPath,
                   mp3_path     |-> IF Truthy(mp3_url) THEN RecordedPath(mp3_path, mp3_req)
                                    ELSE NoPath]
  IN  [requests |-> (IF pdf_req THEN <<AssetRequest(pdf_url, pdf_path, url, "pdf")>> ELSE <<>>)
                    \o (IF mp3_req THEN <<AssetRequest(mp3_url, mp3_path, url, "mp3")>> ELSE <<>>),
       item     |-> item,
       probes   |-> (IF Truthy(pdf_url)
                       THEN {[ep |-> url, kind |-> "pdf", path |-> pdf_path,
                              found |-> IF PathExists(files, pdf_path) THEN files[pdf_path]
                                        ELSE "absent",
                              requested |-> pdf_req]}
                       ELSE {})
                    \cup
                    (IF Truthy(mp3_url)
                       THEN {[ep |-> url, kind |-> "mp3", path |-> mp3_path,
                              found |-> IF PathExists(files, mp3_path) THEN files[mp3_path]
                                        ELSE "absent",
                              requested |-> mp3_req]}
                       ELSE {})]

\* ------------------------------------------------------- pipelines: ledger
Header ==
  <<"Title", "PDF URL", "PDF Path", "MP3 URL", "MP3 Path", "Page URL",
    "Release Date", "Release Year", "Status">>

\* the row process_item appends
Row(item) ==
  <<item.title, item.pdf_url, item.pdf_path, item.mp3_url, item.mp3_path, item.url,
    item.release_date, item.release_year, "Downloaded">>

\* AppendRow putting the row right below the first row (insert_rows(2))
AppendRowOnTop(rows, row) ==
  IF rows = <<>> THEN <<row>> ELSE <<Head(rows), row>> \o Tail(rows)

\* self.sheet.append(row): the row goes below the last row of the sheet
AppendRow(rows, row) == Append(rows, row)

\* LoadWorkbook starting a new workbook whatever the file holds
LoadWorkbookFresh(file) == <<Header>>

\* load_workbook(self.excel_path), self.wb.active: the rows of the file.  The file
\* format is openpyxl's; the model keeps the rows as they were saved.
LoadWorkbook(file) == file.rows

\* self.wb.save(self.excel_path): the file holds the rows of the sheet
SaveWorkbook(rows) == [exists |-> TRUE, rows |-> rows]

\* the directory ExcelPipeline keeps the ledger in: FILES_STORE / spider.name.capitalize(),
\* by its docstring ~/Documents/BBC_English_Podcast/<SpiderNameCapitalized>
SpiderDir == "~/Documents/BBC_English_Podcast/Six_minutes_english"

\* self.excel_path
ExcelPath == [dir |-> SpiderDir, name |-> "Six_minutes_english.xlsx"]

\* ------------------------------------------------------------------ state
VARIABLES
  years,         \* the years argument of the spider (the same in every run)
  page,          \* the blocks of the listing page
  target_years,  \* self.target_years
  files,         \* the files under BaseDir: path -> "empty" | "data"
  disk,          \* the ledger file excel_path: [exists, rows]
  run,           \* the number of the run
  pc,            \* "init" | "start" | "crawl" | "closed"
  sheet,         \* self.sheet of ExcelPipeline: the rows in memory
  total_items,   \* self.total_items of ExcelPipeline
  stats,         \* crawler.stats, the keys close_spider reads
  dupefilter,    \* the addresses the scheduler has seen in this run
  detailQueue,   \* detail requests scheduled, not yet answered
  assetQueue,    \* asset requests scheduled, not yet answered
  itemQueue,     \* items yielded, not yet through process_item
  yielded,       \* history: the requests parse yielded in this run
  passed,        \* history: the blocks that went past the year filter in this run
  probes,        \* history: what parse_podcast found at each asset's path in this run
  fetchLog,      \* history: how each detail fetch of this run ended
  assetLog,      \* history: how each asset fetch of this run ended
  diskAtOpen,    \* history: the ledger file as the last open_spider found it
  parsed,        \* history: parse has run in this run
  appended,      \* history: the items given to process_item since the last open_spider
  summaries,     \* the crawl summaries close_spider has logged in this run
  handled,       \* history: address -> the detail fetches of it answered in this run
  prev           \* history: how the run before this one went

vars ==
  <<years, page, target_years, files, disk, run, pc, sheet, total_items, stats,
    dupefilter, detailQueue, assetQueue, itemQueue, yielded, passed, probes,
    fetchLog, assetLog, diskAtOpen, parsed, appended, summaries, handled, prev>>

config == <<years, page, target_years>>

history ==
  <<yielded, passed, probes, fetchLog, assetLog, diskAtOpen, parsed, appended, handled, prev>>

\* no file under BaseDir
NoFiles == [p \in {} |-> "data"]

NoFile == [exists |-> FALSE, rows |-> <<>>]

\* crawler.stats at the start of a run
ZeroStats ==
  [request_count |-> 0, item_scraped_count |-> 0,
   episodes_scheduled |-> 0, episodes_fetched |-> 0,
   pdf_downloaded |-> 0, mp3_downloaded |-> 0, pdf_skipped |-> 0, mp3_skipped |-> 0]

\* no detail fetch answered
NoneHandled == [u \in {} |-> 0]

\* there was no run before this one
NoPrev == [ran |-> FALSE, listed |-> FALSE, details_ok |-> FALSE, assets_ok |-> FALSE]

\* the state of a process that has just built the spider
FreshRun ==
  /\ pc = "init"
  /\ sheet = <<>>
  /\ total_items = 0
  /\ stats = ZeroStats
  /\ dupefilter = {}
  /\ detailQueue = {}
  /\ assetQueue = {}
  /\ itemQueue = <<>>
  /\ yielded = <<>>
  /\ passed = {}
  /\ probes = {}
  /\ fetchLog = {}
  /\ assetLog = {}
  /\ parsed = FALSE
  /\ summaries = <<>>
  /\ handled = NoneHandled

Init ==
  /\ years \in YearsArgs
  /\ page \in Pages
  /\ target_years = ParseYears(years)
  /\ files = NoFiles
  /\ disk = NoFile
  /\ diskAtOpen = NoFile
  /\ appended = <<>>
  /\ prev = NoPrev
  /\ run = 1
  /\ FreshRun

\* ------------------------------------------------------------- the engine
RECURSIVE Schedule(_, _)
\* the scheduler's duplicate filter over the requests a callback yielded:
\* those it lets through, and the addresses it has then seen
Schedule(requests, seen) ==
  IF requests = <<>> THEN [through |-> {}, seen |-> seen]
  ELSE LET r    == Head(requests)
           rest == Schedule(Tail(requests), seen \cup {r.url})
       IN  IF r.url \in seen THEN rest
           ELSE [rest EXCEPT !.through = @ \cup {r}]

\* CallbackOnHttpError of requests sent with handle_httpstatus_all
CallbackOnHttpErrorAll == TRUE

\* Neither line 118 nor lines 151 and 158 give the request an errback or
\* handle_httpstatus_all: a response that is not 2xx never reaches the callback.
CallbackOnHttpError == FALSE

\* the callback of a request runs on a fetch that ended so
CallbackRuns(outcome) == outcome = "ok" \/ (outcome = "http_error" /\ CallbackOnHttpError)

Idle == detailQueue = {} /\ assetQueue = {} /\ itemQueue = <<>>

\* ---------------------------------------------------------------- actions
\* ExcelPipeline.open_spider
OpenSpider ==
  /\ pc = "init"
  /\ IF disk.exists
       THEN /\ sheet' = LoadWorkbook(disk)
            /\ disk' = disk
       ELSE /\ sheet' = AppendRow(<<>>, Header)
            /\ disk' = SaveWorkbook(AppendRow(<<>>, Header))
  /\ total_items' = 0
  /\ diskAtOpen' = disk
  /\ appended' = <<>>
  /\ pc' = "start"
  /\ UNCHANGED <<config, files, run, stats, dupefilter, detailQueue, assetQueue,
                 itemQueue, yielded, passed, probes, fetchLog, assetLog, parsed,
                 summaries, handled, prev>>

\* the listing page is fetched and parse runs on it
ListingFetched ==
  /\ pc = "start"
  /\ \E res \in {Parse(page, target_years)} :
       \E sch \in {Schedule(res.out, dupefilter)} :
         /\ yielded' = res.out
         /\ passed' = res.passed
         /\ parsed' = TRUE
         /\ detailQueue' = sch.through
         /\ dupefilter' = sch.seen
  /\ stats' = [stats EXCEPT !.request_count = @ + 1]
  /\ pc' = "crawl"
  /\ UNCHANGED <<config, files, disk, run, sheet, total_items, assetQueue, itemQueue,
                 probes, fetchLog, assetLog, diskAtOpen, appended, summaries, handled,
                 prev>>

\* the listing fetch fails: parse never runs
ListingFailed ==
  /\ pc = "start"
  /\ stats' = [stats EXCEPT !.request_count = @ + 1]
  /\ pc' = "crawl"
  /\ UNCHANGED <<config, files, disk, run, sheet, total_items, dupefilter, detailQueue,
                 assetQueue, itemQueue, summaries, history>>

\* one more fetch of url answered
Answered(counts, url) ==
  [u \in DOMAIN counts \cup {url} |->
     IF u = url THEN (IF url \in DOMAIN counts THEN counts[url] + 1 ELSE 1) ELSE counts[u]]

\* a detail fetch ends; parse_podcast runs on the response if the engine hands it over
DetailFetched(req, outcome) ==
  /\ pc = "crawl"
  /\ itemQueue = <<>>
  /\ req \in detailQueue
  /\ fetchLog' = fetchLog \cup {[url |-> req.url, outcome |-> Ended(outcome)]}
  /\ stats' = [stats EXCEPT !.request_count = @ + 1]
  /\ IF CallbackRuns(outcome)
       THEN \E doc \in {IF outcome = "ok" THEN DetailPage(req.url) ELSE ErrorPage} :
              \E res \in {ParsePodcast(req.meta, req.url, doc, files)} :
                \E sch \in {Schedule(res.requests, dupefilter)} :
                  /\ assetQueue' = assetQueue \cup sch.through
                  /\ dupefilter' = sch.seen
                  /\ itemQueue' = <<res.item>>
                  /\ probes' = probes \cup res.probes
       ELSE UNCHANGED <<assetQueue, dupefilter, itemQueue, probes>>
  /\ detailQueue' = detailQueue \ {req}
  /\ handled' = Answered(handled, req.url)
  /\ UNCHANGED <<config, files, disk, run, pc, sheet, total_items, yielded, passed,
                 assetLog, diskAtOpen, parsed, appended, summaries, prev>>

\* ProcessItem appending the row of the item twice
ProcessItemTwice ==
  /\ itemQueue # <<>>
  /\ sheet' = AppendRow(AppendRow(sheet, Row(Head(itemQueue))), Row(Head(itemQueue)))
  /\ appended' = Append(appended, Head(itemQueue))
  /\ total_items' = total_items + 1
  /\ stats' = [stats EXCEPT !.item_scraped_count = @ + 1]
  /\ itemQueue' = Tail(itemQueue)
  /\ UNCHANGED <<config, files, disk, run, pc, dupefilter, detailQueue, assetQueue,
                 yielded, passed, probes, fetchLog, assetLog, diskAtOpen, parsed,
                 summaries, handled, prev>>

\* ExcelPipeline.process_item on the item parse_podcast has just yielded
ProcessItem ==
  /\ itemQueue # <<>>
  /\ sheet' = AppendRow(sheet, Row(Head(itemQueue)))
  /\ appended' = Append(appended, Head(itemQueue))
  /\ total_items' = total_items + 1
  /\ stats' = [stats EXCEPT !.item_scraped_count = @ + 1]
  /\ itemQueue' = Tail(itemQueue)
  /\ UNCHANGED <<config, files, disk, run, pc, dupefilter, detailQueue, assetQueue,
                 yielded, passed, probes, fetchLog, assetLog, diskAtOpen, parsed,
                 summaries, handled, prev>>

\* SaveFile with the body never reaching the disk
SaveFileDropped(fs, path, body) == fs

\* _save_file(response): the body is written at response.meta["filepath"]
SaveFile(fs, path, body) ==
  [p \in DOMAIN fs \cup {path} |-> IF p = path THEN body ELSE fs[p]]

\* an asset fetch ends; _save_file runs on the response if the engine hands it over
AssetFetched(req, outcome) ==
  /\ pc = "crawl"
  /\ itemQueue = <<>>
  /\ req \in assetQueue
  /\ stats' = [stats EXCEPT !.request_count = @ + 1]
  /\ IF CallbackRuns(outcome)
       THEN files' = SaveFile(files, req.filepath,
                              IF outcome = "ok" THEN AssetBody(req.url) ELSE "data")
       ELSE files' = files
  /\ assetLog' = assetLog \cup
       {[ep |-> req.ep, kind |-> req.kind, path |-> req.filepath, outcome |-> Ended(outcome)]}
  /\ assetQueue' = assetQueue \ {req}
  /\ UNCHANGED <<config, disk, run, pc, sheet, total_items, dupefilter, detailQueue,
                 itemQueue, yielded, passed, probes, fetchLog, diskAtOpen, parsed,
                 appended, summaries, handled, prev>>

\* the numbers close_spider reads from crawler.stats (stats.get(key, 0)) and logs
Summary(st) ==
  [total_requests     |-> st.request_count,
   episodes_scheduled |-> st.episodes_scheduled,
   episodes_fetched   |-> st.episodes_fetched,
   total_items        |-> st.item_scraped_count,
   pdf_downloaded     |-> st.pdf_downloaded,
   mp3_downloaded     |-> st.mp3_downloaded,
   pdf_skipped        |-> st.pdf_skipped,
   mp3_skipped        |-> st.mp3_skipped]

\* CloseSpider without self.wb.save(self.excel_path)
CloseSpiderNoSave ==
  /\ pc = "crawl"
  /\ Idle
  /\ summaries' = Append(summaries, Summary(stats))
  /\ pc' = "closed"
  /\ UNCHANGED <<config, files, disk, run, sheet, total_items, stats, dupefilter,
                 detailQueue, assetQueue, itemQueue, history>>

\* ExcelPipeline.close_spider, once the engine has nothing left to do
CloseSpider ==
  /\ pc = "crawl"
  /\ Idle
  /\ disk' = SaveWorkbook(sheet)
  /\ summaries' = Append(summaries, Summary(stats))
  /\ pc' = "closed"
  /\ UNCHANGED <<config, files, run, sheet, total_items, stats, dupefilter, detailQueue,
                 assetQueue, itemQueue, history>>

\* the address of the pdf or mp3 the detail page at ep links
AssetUrl(ep, kind) == IF kind = "pdf" THEN DetailPage(ep).pdf ELSE DetailPage(ep).mp3

\* the spider is started again, on the same machine
NewRun ==
  /\ pc = "closed"
  /\ run < MaxRuns
  /\ run' = run + 1
  /\ target_years' = ParseYears(years)
  /\ pc' = "init"
  /\ sheet' = <<>>
  /\ total_items' = 0
  /\ stats' = ZeroStats
  /\ dupefilter' = {}
  /\ detailQueue' = {}
  /\ assetQueue' = {}
  /\ itemQueue' = <<>>
  /\ yielded' = <<>>
  /\ passed' = {}
  /\ probes' = {}
  /\ fetchLog' = {}
  /\ assetLog' = {}
  /\ parsed' = FALSE
  /\ summaries' = <<>>
  /\ handled' = NoneHandled
  /\ prev' = [ran        |-> TRUE,
              listed     |-> parsed,
              details_ok |-> \A f \in fetchLog : f.outcome = "ok",
              assets_ok  |-> \A a \in assetLog :
                               a.outcome = "ok" /\ AssetBody(AssetUrl(a.ep, a.kind)) = "data"]
  /\ UNCHANGED <<years, page, files, disk, diskAtOpen, appended>>

Next ==
  \/ OpenSpider
  \/ ListingFetched
  \/ ListingFailed
  \/ \E req \in detailQueue, outcome \in FetchOutcomes : DetailFetched(req, outcome)
  \/ ProcessItem
  \/ \E req \in assetQueue, outcome \in FetchOutcomes : AssetFetched(req, outcome)
  \/ CloseSpider
  \/ NewRun

Spec == Init /\ [][Next]_vars

\* what the engine does once the spider is started: it opens the spider, answers
\* every request it has scheduled (a fetch ends, at the latest by the download
\* timeout), hands every item to the pipeline and closes the spider when idle
Engine ==
  \/ OpenSpider
  \/ ListingFailed
  \/ ListingFetched
  \/ \E req \in detailQueue, outcome \in FetchOutcomes : DetailFetched(req, outcome)
  \/ ProcessItem
  \/ \E req \in assetQueue, outcome \in FetchOutcomes : AssetFetched(req, outcome)
  \/ CloseSpider

\* the runs under an engine that does not stop while it has something to do;
\* whether the spider is started again is up to the user
FairSpec == Spec /\ WF_vars(Engine)

\* ------------------------------------------------- what the claims speak of
IsPrefix(a, b) == Len(a) <= Len(b) /\ SubSeq(b, 1, Len(a)) = a

\* the rows process_item has appended in this run
RunRows ==
  IF pc = "init" THEN <<>>
  ELSE SubSeq(sheet, (IF diskAtOpen.exists THEN Len(diskAtOpen.rows) ELSE 1) + 1, Len(sheet))

RowPdfPath(row) == row[3]

RowMp3Path(row) == row[5]

RowUrl(row) == row[6]

RowYear(row) == row[8]

\* the rows of this run for the episode at url
RowsFor(url) == {k \in 1..Len(RunRows) : RowUrl(RunRows[k]) = url}

\* block i of the listing has a primary link
Linked(i) == Truthy(page[i].href)

\* the absolute address of block i
BlockUrl(i) == UrlJoin(page[i].href)

\* the release year the listing gives each block, None if it gives none
YearOfBlock == [b \in Blocks |-> ExtractDateAndYear(Join(b.details, <<" ">>))[2]]

\* the release year the listing gives block i
BlockYear(i) == YearOfBlock[page[i]]

\* y is one of the years the argument arg configures: a piece of arg between
\* commas that, blanks around it removed, is y and is not empty
ConfiguredIn(arg, y) ==
  /\ arg # None
  /\ y # <<>>
  /\ \E a \in 1..Len(arg), b \in 1..Len(arg) :
       /\ a <= b
       /\ (a = 1 \/ arg[a - 1] = ",")
       /\ (b = Len(arg) \/ arg[b + 1] = ",")
       /\ \A k \in a..b : arg[k] # ","
       /\ Strip(SubSeq(arg, a, b)) = y

\* the argument arg is unset, empty, or made of commas and blanks only
NothingConfiguredIn(arg) == arg = None \/ \A k \in 1..Len(arg) : arg[k] \in {",", " "}

\* the year filter as the specification states it: under the argument arg it
\* accepts the block b
AcceptedUnder ==
  [arg \in YearsArgs |->
    [b \in Blocks |->
      NothingConfiguredIn(arg)
        \/ (YearOfBlock[b] # None /\ ConfiguredIn(arg, YearOfBlock[b]))]]

NoYearsConfigured == NothingConfiguredIn(years)

\* the specification's year filter accepts block i
Accepted(i) == AcceptedUnder[years][page[i]]

\* some block with a link, the specification's filter accepting it, is at url
\* and carries this release year
FromAcceptedEntry(url, year) ==
  \E i \in 1..Len(page) : Linked(i) /\ Accepted(i) /\ BlockUrl(i) = url /\ BlockYear(i) = year

FromAcceptedUrl(url) ==
  \E i \in 1..Len(page) : Linked(i) /\ Accepted(i) /\ BlockUrl(i) = url

\* ----------------------------------------------------------------- claims
\* C1 (skip contract): an asset of a processed episode at whose path
\* parse_podcast found a file of size > 0 is not requested: parse_podcast
\* yields no request for it, and none is queued or answered in the run.
C1_SkipContract ==
  \A pr \in probes :
    pr.found = "data" =>
      /\ ~pr.requested
      /\ \A r \in assetQueue : ~(r.ep = pr.ep /\ r.kind = pr.kind)
      /\ \A l \in assetLog : ~(l.ep = pr.ep /\ l.kind = pr.kind)

\* C1, reached: a run has ended in which an episode was resolved with a
\* non-empty file already at the path of one of its assets
C1_Witness == pc = "closed" /\ \E pr \in probes : pr.found = "data"

\* C2 as the specification states it: at the end of a run, the episode of every
\* asset whose download failed has a row in the ledger, and the row's path field
\* for that asset (PDF Path, MP3 Path) is empty.
C2_FailedAssetPathEmpty ==
  pc = "closed" =>
    \A l \in assetLog :
      l.outcome = "failed" =>
        \E k \in RowsFor(l.ep) :
          (IF l.kind = "pdf" THEN RowPdfPath(RunRows[k]) ELSE RowMp3Path(RunRows[k])) = NoPath

\* C3 as the specification states it: an asset at whose path parse_podcast found
\* no file, or a file of no bytes, is requested.
C3_EmptyFileRequested ==
  \A pr \in probes : pr.found \in {"absent", "empty"} => pr.requested

\* the rows of these items
RowsOf(items) == [k \in 1..Len(items) |-> Row(items[k])]

\* C4 (ledger round trip): when open_spider had found no ledger file and the
\* ledger is opened again after the K process_item calls and the close that
\* followed, the sheet it loads is the header row and then the rows of those K
\* items, in the order they were appended.
C4_RoundTrip ==
  [][(pc = "init" /\ pc' = "start" /\ ~diskAtOpen.exists /\ disk.exists)
       => sheet' = <<Header>> \o RowsOf(appended)]_vars

\* C4, reached: a second run has reopened a ledger of two rows below the header
C4_Witness ==
  /\ run = 2 /\ pc = "start"
  /\ Len(appended) = 0
  /\ Len(sheet) = 3 /\ sheet[1] = Header
  /\ RowUrl(sheet[2]) # RowUrl(sheet[3])

\* C5 (the ledger is additive): the ledger file holds, as its first rows, the
\* rows it held when the run opened it; once the run has closed it holds those
\* (the header, if there was no file) and then one row per process_item of the
\* run; a row for an episode that has a row already repeats that row.
C5_Additive ==
  /\ diskAtOpen.exists => IsPrefix(diskAtOpen.rows, disk.rows)
  /\ pc = "closed" =>
       /\ disk.exists
       /\ disk.rows[1] = Header
       /\ Len(disk.rows) = (IF diskAtOpen.exists THEN Len(diskAtOpen.rows) ELSE 1) + total_items
       /\ RunRows = RowsOf(appended)
       /\ \A i \in 2..Len(disk.rows), j \in 2..Len(disk.rows) :
            RowUrl(disk.rows[i]) = RowUrl(disk.rows[j]) => disk.rows[i] = disk.rows[j]

\* C5, reached: a second run over the same episode has closed, and the ledger
\* holds the row of the first run and the same row once more
C5_Witness ==
  /\ run = 2 /\ pc = "closed"
  /\ diskAtOpen.exists /\ Len(diskAtOpen.rows) >= 2
  /\ \E j \in (Len(diskAtOpen.rows) + 1)..Len(disk.rows) :
       \E i \in 2..Len(diskAtOpen.rows) : disk.rows[i] = disk.rows[j]

\* C6 (year filter): once parse has run, a block with a link went past the filter
\* iff no year is configured (the argument unset, empty, commas and blanks), or
\* its release year is there and is one of the configured years.
C6_YearFilter ==
  parsed => \A i \in 1..Len(page) : Linked(i) => (i \in passed <=> Accepted(i))

\* C6, reached: parse has run under configured years; a block went past the
\* filter, a block with no year did not
C6_Witness ==
  /\ parsed /\ ~NoYearsConfigured
  /\ \E i \in 1..Len(page) : Linked(i) /\ i \in passed
  /\ \E i \in 1..Len(page) : Linked(i) /\ BlockYear(i) = None /\ i \notin passed

\* C7 (the filter comes before the fetch): every detail request yielded, queued
\* or answered, every row appended, every asset looked for, requested or
\* answered in the run is of an entry of the listing the filter accepted.
C7_FilterBeforeFetch ==
  /\ \A k \in 1..Len(yielded) :
       FromAcceptedEntry(yielded[k].url, yielded[k].meta.release_year)
  /\ \A r \in detailQueue : FromAcceptedEntry(r.url, r.meta.release_year)
  /\ \A f \in fetchLog : FromAcceptedUrl(f.url)
  /\ \A k \in 1..Len(itemQueue) :
       FromAcceptedEntry(itemQueue[k].url, itemQueue[k].release_year)
  /\ \A k \in 1..Len(RunRows) : FromAcceptedEntry(RowUrl(RunRows[k]), RowYear(RunRows[k]))
  /\ \A pr \in probes : FromAcceptedUrl(pr.ep)
  /\ \A r \in assetQueue : FromAcceptedUrl(r.ep)
  /\ \A l \in assetLog : FromAcceptedUrl(l.ep)

\* C7, reached: a run under configured years has ended; the listing had an entry
\* the filter rejected, and an accepted one was fetched, its asset downloaded and
\* its row appended
C7_Witness ==
  /\ pc = "closed"
  /\ \E i \in 1..Len(page) : Linked(i) /\ ~Accepted(i)
  /\ fetchLog # {} /\ assetLog # {} /\ Len(RunRows) >= 1

\* C8 (listing dedup): the requests one parse yields are for pairwise different
\* absolute addresses.
C8_ListingDedup ==
  \A i \in 1..Len(yielded), j \in 1..Len(yielded) :
    /\ IsAbsolute(yielded[i].url)
    /\ (i # j => yielded[i].url # yielded[j].url)

\* C8, reached: parse has run on a listing where two blocks that went past the
\* filter resolve to the same absolute address, written in two ways
C8_Witness ==
  /\ parsed
  /\ \E i \in 1..Len(page), j \in 1..Len(page) :
       /\ i < j /\ Linked(i) /\ Linked(j)
       /\ i \in passed /\ j \in passed
       /\ page[i].href # page[j].href
       /\ BlockUrl(i) = BlockUrl(j)
  /\ Len(yielded) = 1

\* every block of the listing has a link
AllLinked == \A i \in 1..Len(page) : Linked(i)

\* the absolute addresses of the blocks
BlockUrls == {BlockUrl(i) : i \in {k \in 1..Len(page) : Linked(k)}}

\* C9 as the specification states it: on a listing of N blocks, each with a
\* link, and no year configured, parse yields exactly N requests.
C9_YieldsN ==
  (parsed /\ AllLinked /\ NoYearsConfigured) => Len(yielded) = Len(page)

\* C9, amended: on a listing of N blocks, each with a link, and no year
\* configured, parse yields one request per absolute address among the blocks,
\* the addresses pairwise different: N requests when the N blocks resolve to N
\* addresses, fewer when two of them resolve to the same one.
C9_YieldsOnePerUrl ==
  (parsed /\ AllLinked /\ NoYearsConfigured) =>
    /\ Len(yielded) = Cardinality(BlockUrls)
    /\ {yielded[k].url : k \in 1..Len(yielded)} = BlockUrls
    /\ (Cardinality(BlockUrls) = Len(page) => Len(yielded) = Len(page))

\* C9, reached: parse has run with no year configured on a listing of blocks
\* that all have a link, at different addresses, one of them with no date
C9_Witness ==
  /\ parsed /\ AllLinked /\ NoYearsConfigured
  /\ Len(page) >= 2 /\ Cardinality(BlockUrls) = Len(page)
  /\ \E i \in 1..Len(page) : BlockYear(i) = None
  /\ Len(yielded) = Len(page)

\* C10 (a detail fetch fails): the episode of a detail fetch that failed has no
\* item, no row, no asset looked for, requested or answered, and
\* episodes/fetched counts no more than the fetches that succeeded; at the end
\* of the run every request parse yielded has been answered, and each one
\* answered with success has exactly one row.
C10_DetailFailure ==
  /\ \A f \in fetchLog :
       f.outcome = "failed" =>
         /\ RowsFor(f.url) = {}
         /\ \A k \in 1..Len(itemQueue) : itemQueue[k].url # f.url
         /\ \A pr \in probes : pr.ep # f.url
         /\ \A r \in assetQueue : r.ep # f.url
         /\ \A l \in assetLog : l.ep # f.url
  /\ stats.episodes_fetched <= Cardinality({f \in fetchLog : f.outcome = "ok"})
  /\ pc = "closed" =>
       \A k \in 1..Len(yielded) :
         /\ \E f \in fetchLog : f.url = yielded[k].url
         /\ [url |-> yielded[k].url, outcome |-> "ok"] \in fetchLog
              => Cardinality(RowsFor(yielded[k].url)) = 1

\* C10, reached: a run has ended in which one detail fetch failed and another
\* succeeded and has its row
C10_Witness ==
  /\ pc = "closed"
  /\ \E f \in fetchLog : f.outcome = "failed"
  /\ \E f \in fetchLog : f.outcome = "ok" /\ RowsFor(f.url) # {}

\* the summary close_spider logged at the end of this run
LastSummary == summaries[Len(summaries)]

\* C11 (episode counters): at the end of a run the summary's "Episodes scheduled"
\* is the number of requests parse yielded (the blocks that went past the year
\* filter and the dedup), and its "Episodes fetched" is the number of detail
\* fetches of the run that succeeded.
C11_EpisodeCounters ==
  (pc = "closed" /\ summaries # <<>>) =>
    /\ LastSummary.episodes_scheduled = Len(yielded)
    /\ LastSummary.episodes_fetched = Cardinality({f \in fetchLog : f.outcome = "ok"})

\* the assets of a kind a download of this run saved
SavedAssets(kind) == {a \in assetLog : a.kind = kind /\ a.outcome = "ok"}

\* the assets of a kind parse_podcast found on disk and did not request
SkippedAssets(kind) == {pr \in probes : pr.kind = kind /\ pr.found # "absent" /\ ~pr.requested}

\* C12 (asset counters): at the end of a run, for PDF and for audio, the summary's
\* downloaded count is the number of assets of that kind a download of the run
\* saved, and its skipped count the number of assets of that kind found on disk
\* and not downloaded.
C12_AssetCounters ==
  (pc = "closed" /\ summaries # <<>>) =>
    /\ LastSummary.pdf_downloaded = Cardinality(SavedAssets("pdf"))
    /\ LastSummary.mp3_downloaded = Cardinality(SavedAssets("mp3"))
    /\ LastSummary.pdf_skipped = Cardinality(SkippedAssets("pdf"))
    /\ LastSummary.mp3_skipped = Cardinality(SkippedAssets("mp3"))

\* the file name stem the specification gives a title: the title without the
\* illegal characters, or "Unknown" when nothing but blanks is left of it
ClaimedStem(title) ==
  IF Strip(RemoveIllegal(OrElse(title, <<>>))) = <<>> THEN Unknown
  ELSE RemoveIllegal(title)

\* C13 (file name of an asset): for every item, the name of the file of its pdf
\* and of its mp3 is the item's title with the characters \ / * ? : " < > |
\* removed, or "Unknown" when that leaves nothing, followed by the extension.
C13_FilenameStem ==
  \A k \in 1..Len(appended) :
    /\ Truthy(appended[k].pdf_url) =>
         appended[k].pdf_path.name = ClaimedStem(appended[k].title) \o PdfExt
    /\ Truthy(appended[k].mp3_url) =>
         appended[k].mp3_path.name = ClaimedStem(appended[k].title) \o Mp3Ext

\* the run before this one fetched the listing and every detail page it asked
\* for, and every download of it succeeded with a body that was not empty
PrevRunComplete == prev.ran /\ prev.listed /\ prev.details_ok /\ prev.assets_ok

\* no asset is requested in this run
NoDownloadRequest ==
  /\ assetQueue = {}
  /\ assetLog = {}
  /\ \A pr \in probes : ~pr.requested

C15_RunCloses ==
  /\ (pc = "init") ~> (pc = "closed")
  /\ [](pc = "closed" =>
          /\ Len(summaries) = 1
          /\ itemQueue = <<>>
          /\ disk = SaveWorkbook(sheet)
          /\ Len(RunRows) = Len(appended))
  /\ [](pc # "closed" => summaries = <<>>)
  /\ [][(pc = "closed" /\ pc' = "closed") =>
          (sheet' = sheet /\ disk' = disk /\ appended' = appended /\ summaries' = summaries)]_vars

\* C15, reached: a run has closed in which a detail fetch failed, an asset
\* download failed and a row was appended
C15_Witness ==
  /\ pc = "closed"
  /\ Len(summaries) = 1
  /\ \E f \in fetchLog : f.outcome = "failed"
  /\ \E a \in assetLog : a.outcome = "failed"
  /\ Len(appended) >= 1
  /\ disk = SaveWorkbook(sheet)

\* C16 (per-episode ordering): the row of an episode is in the ledger only once
\* every download parse_podcast requested for that episode has ended; while a
\* download of an episode is pending, the episode has no row.
C16_RowAfterDownloads ==
  \A k \in 1..Len(RunRows) :
    \A r \in assetQueue : r.ep # RowUrl(RunRows[k])

\* C17 (no check-then-write race in a run): no two episodes of one run both look
\* for a file at the same path, find it missing and request a download that
\* writes there.
C17_NoPathRace ==
  \A p \in probes, q \in probes :
    (p.requested /\ q.requested /\ p.path = q.path) => p.ep = q.ep

\* C18 (run-level dedup): in one run, however the fetches interleave, no
\* address has more than one detail fetch answered, none answered is still
\* pending, no two pending requests are for one address, and the ledger gets
\* at most one row per address.
C18_ProcessedOnce ==
  /\ \A u \in DOMAIN handled : handled[u] <= 1
  /\ \A r \in detailQueue : r.url \notin DOMAIN handled
  /\ \A r1 \in detailQueue, r2 \in detailQueue : r1.url = r2.url => r1 = r2
  /\ \A k \in 1..Len(RunRows), l \in 1..Len(RunRows) :
       RowUrl(RunRows[k]) = RowUrl(RunRows[l]) => k = l

\* C18, reached: a run has ended on a listing that links one address from two
\* blocks that both went past the filter, and the address linked twice was
\* fetched once and has one row
C18_Witness ==
  /\ pc = "closed"
  /\ \E i \in 1..Len(page), j \in 1..Len(page) :
       /\ i < j /\ Linked(i) /\ Linked(j)
       /\ i \in passed /\ j \in passed
       /\ BlockUrl(i) = BlockUrl(j)
       /\ BlockUrl(i) \in DOMAIN handled
       /\ handled[BlockUrl(i)] = 1
       /\ Cardinality(RowsFor(BlockUrl(i))) = 1

\* the title, number, date and year the listing gives each block
HintsOfBlock ==
  [b \in Blocks |->
    [title        |-> Strip(OrElse(b.title, <<>>)),
     number       |-> Strip(OrElse(b.number, <<>>)),
     release_date |-> ExtractDateAndYear(Join(b.details, <<" ">>))[1],
     release_year |-> YearOfBlock[b]]]

\* block i has a link, and the link is to url
LinksTo(i, url) == Linked(i) /\ BlockUrl(i) = url

ExtOf(kind) == IF kind = "pdf" THEN PdfExt ELSE Mp3Ext

\* C20 (asset path composition): every file a download of the run wrote is in
\* the directory the ledger is kept in, under the release year of its episode,
\* or under "Unknown" when the episode has none, and is named by the sanitized
\* title of the episode and the extension of its kind.
C20_PathComposition ==
  \A a \in assetLog :
    a.outcome = "ok" =>
      \E k \in 1..Len(appended) :
        /\ appended[k].url = a.ep
        /\ a.path.dir = ExcelPath.dir
        /\ a.path.year = OrElse(appended[k].release_year, Unknown)
        /\ a.path.name = SanitizeFilename(OrElse(appended[k].title, Unknown)) \o ExtOf(a.kind)

====
